---- MODULE Spec2Model ----
(***************************************************************************)
(* A model of apps/python-service/main.py: the video-identifier parser,    *)
(* the transcript resolver, the batch driver and the page scraper.         *)
(*                                                                         *)
(* Text is a sequence of pieces.  A URL is a sequence of one-character     *)
(* strings, so that the regular expressions of extract_video_id can be     *)
(* evaluated position by position; a message literal is one piece.  The    *)
(* empty text is << >>.  An optional value (None in the source) is a       *)
(* sequence of length 0 or 1.                                              *)
(***************************************************************************)
EXTENDS Integers, Sequences, FiniteSets, TLC

VARIABLES
    provider,       \* the transcript provider: video id -> its behaviour for
                    \* that video, None until the video is first asked for
    request,        \* the TranscriptRequest being resolved
    pc,             \* position inside get_youtube_transcript
    video_id,       \* local video_id (line 176)
    transcript_list,\* local transcript_list (line 179), the enumerated tracks
    transcript,     \* local transcript (None or a track)
    language_used,  \* local language_used
    li,             \* position of the for loop of line 185 in request.languages
    raised,         \* the exception the outer handlers caught, if any
    result,         \* the TranscriptResponse returned, if any
    calls,          \* the provider calls made so far, in order
    batch,          \* the BatchTranscriptRequest, if the request is a batch
    bi,             \* position of the for loop of line 258 in batch.urls
    results,        \* local results of get_youtube_transcripts_batch
    response,       \* what get_youtube_transcripts_batch returned, if it has
    srequest,       \* the ScrapeRequest being served, if any
    http,           \* what the GET of srequest.url meets (external content)
    spc,            \* position inside scrape_url
    soup,           \* local soup: the parsed nodes and those not decomposed
    content,        \* local content (line 99 or 103), before the cap
    sresponse,      \* the ScrapeResponse returned, if any
    served          \* the requests answered so far, each with its response

tvars == <<provider, request, pc, video_id, transcript_list, transcript,
           language_used, li, raised, result, calls>>
tvars_but_pc == <<provider, request, video_id, transcript_list, transcript,
                  language_used, li, raised, result, calls>>
bvars == <<batch, bi, results, response>>
svars == <<srequest, http, spc, soup, content, sresponse>>
vars == <<tvars, bvars, svars, served>>

----------------------------------------------------------------------------
(* Bounds of the model *)

MaxLangs == 2
MaxTracks == 2
MaxUrls == 2

----------------------------------------------------------------------------
(* Optional values and text *)

None == << >>
Some(v) == <<v>>
IsNone(o) == o = << >>
Get(o) == o[1]

RECURSIVE JoinTexts(_, _)
\* sep.join(texts): the texts in order with sep between neighbours
JoinTexts(texts, sep) ==
    IF Len(texts) = 0 THEN << >>
    ELSE IF Len(texts) = 1 THEN texts[1]
    ELSE texts[1] \o sep \o JoinTexts(Tail(texts), sep)

----------------------------------------------------------------------------
(* extract_video_id *)

IdLen == 11

Lower == {"a","b","c","d","e","f","g","h","i","j","k","l","m",
          "n","o","p","q","r","s","t","u","v","w","x","y","z"}
Upper == {"A","B","C","D","E","F","G","H","I","J","K","L","M",
          "N","O","P","Q","R","S","T","U","V","W","X","Y","Z"}
Digit == {"0","1","2","3","4","5","6","7","8","9"}
\* the character class [a-zA-Z0-9_-]
IdChars == Lower \cup Upper \cup Digit \cup {"_", "-"}

\* the alternatives of (?:v=|\/v\/|youtu\.be\/|\/embed\/), in order
Markers == << <<"v","=">>,
              <<"/","v","/">>,
              <<"y","o","u","t","u",".","b","e","/">>,
              <<"/","e","m","b","e","d","/">> >>

LiteralAt(url, i, lit) ==
    /\ i + Len(lit) - 1 <= Len(url)
    /\ SubSeq(url, i, i + Len(lit) - 1) = lit

\* [a-zA-Z0-9_-]{11} matches at position i
IdAt(url, i) ==
    /\ i >= 1
    /\ i + IdLen - 1 <= Len(url)
    /\ \A k \in i .. (i + IdLen - 1) : url[k] \in IdChars

\* the first pattern matches starting at position i with alternative m
MarkedAt(url, i, m) ==
    /\ LiteralAt(url, i, Markers[m])
    /\ IdAt(url, i + Len(Markers[m]))

\* mutant of SearchMarked: the rightmost start that matches
SearchMarkedRightmost(url) ==
    LET starts == {i \in 1 .. Len(url) : \E m \in 1 .. Len(Markers) : MarkedAt(url, i, m)}
    IN  IF starts = {} THEN None
        ELSE LET i == CHOOSE s \in starts : \A t \in starts : s >= t
                 m == CHOOSE a \in 1 .. Len(Markers) : MarkedAt(url, i, a)
                 from == i + Len(Markers[m])
             IN  Some(SubSeq(url, from, from + IdLen - 1))

\* re.search with the first pattern: the leftmost start, and at that start
\* the first alternative that matches; None when nothing matches
SearchMarked(url) ==
    LET starts == {i \in 1 .. Len(url) : \E m \in 1 .. Len(Markers) : MarkedAt(url, i, m)}
    IN  IF starts = {} THEN None
        ELSE LET i == CHOOSE s \in starts : \A t \in starts : s <= t
                 m == CHOOSE a \in 1 .. Len(Markers) :
                        /\ MarkedAt(url, i, a)
                        /\ \A b \in 1 .. Len(Markers) : MarkedAt(url, i, b) => a <= b
                 from == i + Len(Markers[m])
             IN  Some(SubSeq(url, from, from + IdLen - 1))

\* re.search with ^([a-zA-Z0-9_-]{11})$ : without re.MULTILINE, ^ matches at
\* the start only and $ at the end or just before a newline that ends the input
SearchBare(url) ==
    IF /\ IdAt(url, 1)
       /\ \/ Len(url) = IdLen
          \/ Len(url) = IdLen + 1 /\ url[IdLen + 1] = "\n"
    THEN Some(SubSeq(url, 1, IdLen))
    ELSE None

ValueErrorOf(url) ==
    [type |-> "ValueError", msg |-> <<"Could not extract video ID from: ">> \o url]

\* extract_video_id(url): [ok |-> TRUE, id |-> ...] or [ok |-> FALSE, exc |-> ...]
extract_video_id(url) ==
    IF ~IsNone(SearchMarked(url)) THEN [ok |-> TRUE, id |-> Get(SearchMarked(url))]
    ELSE IF ~IsNone(SearchBare(url)) THEN [ok |-> TRUE, id |-> Get(SearchBare(url))]
    ELSE [ok |-> FALSE, exc |-> ValueErrorOf(url)]

----------------------------------------------------------------------------
(* Inputs of the transcript endpoints *)

IdA == <<"d","Q","w","4","w","9","W","g","X","c","Q">>
IdB == <<"a","b","c","_","D","E","F","-","1","2","3">>
VideoIds == {IdA, IdB}

UrlShort == <<"y","o","u","t","u",".","b","e","/">> \o IdA
UrlWatch == <<"y","t","/","w","a","t","c","h","?","v","=">> \o IdB \o <<"&","t","=","1">>
UrlBare == IdB
UrlBad == <<"y","t","/","w","a","t","c","h","?","v","=","s","h","o","r","t">>
UrlEmpty == << >>

Urls == {UrlShort, UrlBare, UrlBad, UrlEmpty}

LangCodes == {"en", "es"}
TrackCodes == {"en", "es", "fr"}

RECURSIVE SeqsUpTo(_, _)
\* the sequences over S of length at most n
SeqsUpTo(S, n) ==
    IF n = 0 THEN {<< >>}
    ELSE LET shorter == SeqsUpTo(S, n - 1)
         IN  shorter \cup {Append(s, x) : s \in shorter, x \in S}

LangLists == SeqsUpTo(LangCodes, MaxLangs)

----------------------------------------------------------------------------
(* The transcript provider (youtube_transcript_api), as main.py uses it *)

Track(code, gen) == [language_code |-> code, is_generated |-> gen]
AllTracks == {Track(c, g) : c \in TrackCodes, g \in BOOLEAN}

IsInjective(s) == \A i, j \in 1 .. Len(s) : s[i] = s[j] => i = j

\* What list_transcripts can yield: the manually created tracks, then the
\* generated ones, each kind holding a language code at most once
TrackLists ==
    {s \in SeqsUpTo(AllTracks, MaxTracks) :
        /\ IsInjective(s)
        /\ \A i, j \in 1 .. Len(s) :
              (s[i].is_generated /\ ~s[j].is_generated) => j < i}

Cue(txt) == [text |-> txt]

\* The cue entries transcript.fetch() yields for a track (external content)
CuesOf(t) ==
    CASE t = Track("en", FALSE) -> <<Cue(<<"Hello">>), Cue(<<"world">>)>>
      [] t = Track("en", TRUE)  -> <<Cue(<<"hello">>)>>
      [] t = Track("es", FALSE) -> <<Cue(<<"hola">>), Cue(<< >>), Cue(<<"mundo">>)>>
      [] t = Track("es", TRUE)  -> << >>
      [] t = Track("fr", FALSE) -> <<Cue(<<"bonjour">>), Cue(<<"le monde">>)>>
      [] OTHER                  -> <<Cue(<<"salut">>)>>

Exc(type, msg) == [type |-> type, msg |-> msg]
TranscriptsDisabled == Exc("TranscriptsDisabled", <<"Subtitles are disabled for this video">>)
NoTranscriptFound == Exc("NoTranscriptFound", <<"No transcripts were found">>)
ProviderValueError == Exc("ValueError", <<"invalid literal">>)
ProviderFault == Exc("Exception", <<"connection reset">>)
SilentFault == Exc("Exception", << >>)

\* The exceptions a provider call can raise besides a lookup's miss
Faults == {TranscriptsDisabled, ProviderValueError, ProviderFault, SilentFault}

NoFault == [stage |-> "none", lang |-> "", exc |-> NoTranscriptFound]

\* At most one provider call of a resolution faults: the enumeration, the
\* lookup of one language, the generated-group lookup or the cue fetch
FaultPlans ==
    {NoFault}
    \cup {[stage |-> s, lang |-> "", exc |-> e] :
            s \in {"list", "generated", "fetch"}, e \in Faults}
    \cup {[stage |-> "find", lang |-> l, exc |-> e] : l \in LangCodes, e \in Faults}
    \cup {[stage |-> s, lang |-> "", exc |-> NoTranscriptFound] : s \in {"list", "fetch"}}

Behaviours == [tracks : TrackLists, fault : FaultPlans]

FaultAt(b, stage, lang) == b.fault.stage = stage /\ b.fault.lang = lang

\* transcript_list._find_transcript(codes, kinds): for each code in order,
\* for each kind in order, the track of that kind and code
RECURSIVE FindIn(_, _, _)
FindIn(tracks, codes, kinds) ==
    IF Len(codes) = 0 THEN None
    ELSE LET hits == [k \in 1 .. Len(kinds) |->
                        {i \in 1 .. Len(tracks) :
                            /\ tracks[i].language_code = codes[1]
                            /\ tracks[i].is_generated = kinds[k]}]
             ks == {k \in 1 .. Len(kinds) : hits[k] # {}}
         IN  IF ks = {} THEN FindIn(tracks, Tail(codes), kinds)
             ELSE LET k == CHOOSE a \in ks : \A b \in ks : a <= b
                  IN  Some(tracks[CHOOSE i \in hits[k] : TRUE])

\* transcript_list.find_transcript(codes): manual first, then generated
find_transcript(tracks, codes) == FindIn(tracks, codes, <<FALSE, TRUE>>)

\* transcript_list.find_generated_transcript(codes): generated only
find_generated_transcript(tracks, codes) == FindIn(tracks, codes, <<TRUE>>)

\* mutant of first_available: the last track enumerated
last_available(tracks) == IF Len(tracks) = 0 THEN None ELSE Some(tracks[Len(tracks)])

\* for t in transcript_list: ... break  -- the first track enumerated
first_available(tracks) == IF Len(tracks) = 0 THEN None ELSE Some(tracks[1])

----------------------------------------------------------------------------
(* get_youtube_transcript: the responses *)

TranscriptResponse(vid, text, lang, ok, err) ==
    [video_id |-> vid, title |-> None, transcript |-> text,
     language |-> lang, success |-> ok, error |-> err]

\* " ".join(entry["text"] for entry in transcript_data)
full_text(cues) == JoinTexts([i \in 1 .. Len(cues) |-> cues[i].text], <<" ">>)

\* lines 220-225
SuccessResponse(vid, cues, lang) ==
    TranscriptResponse(vid, full_text(cues), lang, TRUE, None)

\* mutant of NoTranscriptResponse: the message of another failure
NoTranscriptResponseWrongMessage(vid) ==
    TranscriptResponse(vid, << >>, "", FALSE,
                       Some(<<"Transcripts are disabled for this video">>))

\* lines 207-214
NoTranscriptResponse(vid) ==
    TranscriptResponse(vid, << >>, "", FALSE, Some(<<"No transcript available">>))

\* mutant of HandleException: the generic clause leaves error unset
HandleExceptionDropsCause(e, req) ==
    IF e.type = "TranscriptsDisabled"
    THEN TranscriptResponse(req.url, << >>, "", FALSE,
                            Some(<<"Transcripts are disabled for this video">>))
    ELSE IF e.type = "ValueError"
    THEN TranscriptResponse(req.url, << >>, "", FALSE, Some(e.msg))
    ELSE TranscriptResponse(req.url, << >>, "", FALSE, None)

\* mutant of HandleException: the ValueError clause reports the parsed
\* (unset) identifier and a message of its own
HandleExceptionHidesInput(e, req) ==
    IF e.type = "TranscriptsDisabled"
    THEN TranscriptResponse(req.url, << >>, "", FALSE,
                            Some(<<"Transcripts are disabled for this video">>))
    ELSE IF e.type = "ValueError"
    THEN TranscriptResponse(<< >>, << >>, "", FALSE, Some(<<"Invalid URL">>))
    ELSE TranscriptResponse(req.url, << >>, "", FALSE, Some(e.msg))

\* mutant of HandleException: the generic clause comes first
HandleExceptionGenericFirst(e, req) ==
    TranscriptResponse(req.url, << >>, "", FALSE, Some(e.msg))

\* mutant of HandleException: the language recorded by the search stays
\* in the failure
HandleExceptionKeepsLanguage(e, req) ==
    IF e.type = "TranscriptsDisabled"
    THEN TranscriptResponse(req.url, << >>, language_used, FALSE,
                            Some(<<"Transcripts are disabled for this video">>))
    ELSE TranscriptResponse(req.url, << >>, language_used, FALSE, Some(e.msg))

\* mutant of HandleException: a failure after the parse reports the parsed
\* identifier
HandleExceptionParsedId(e, req) ==
    LET vid == IF e = ValueErrorOf(req.url) THEN req.url ELSE video_id
    IN  IF e.type = "TranscriptsDisabled"
        THEN TranscriptResponse(vid, << >>, "", FALSE,
                                Some(<<"Transcripts are disabled for this video">>))
        ELSE TranscriptResponse(vid, << >>, "", FALSE, Some(e.msg))

\* the except clauses of lines 227-250, tried in order
HandleException(e, req) ==
    IF e.type = "TranscriptsDisabled"
    THEN TranscriptResponse(req.url, << >>, "", FALSE,
                            Some(<<"Transcripts are disabled for this video">>))
    ELSE IF e.type = "ValueError"
    THEN TranscriptResponse(req.url, << >>, "", FALSE, Some(e.msg))
    ELSE TranscriptResponse(req.url, << >>, "", FALSE, Some(e.msg))

----------------------------------------------------------------------------
(* get_youtube_transcript, step by step.  Each provider call is one step;  *)
(* a call that raises runs the matching except clause in the same step.    *)

Call(op, arg) == [op |-> op, arg |-> arg]

TranscriptRequest(url, languages) == [url |-> url, languages |-> languages]

\* the behaviour of the provider for the video being resolved
Behaviour == Get(provider[video_id])

\* The behaviours the provider can show for a video: any, when the video is
\* asked for the first time; the same again afterwards (unchanged content)
Shown(vid) == IF IsNone(provider[vid]) THEN Behaviours ELSE {Get(provider[vid])}

\* an exception reaches the except clauses of lines 227-250
Raise(e) ==
    /\ raised' = Some(e)
    /\ result' = Some(HandleException(e, request))
    /\ pc' = "done"

\* line 176
ExtractVideoId ==
    /\ pc = "start"
    /\ LET p == extract_video_id(request.url)
       IN  IF p.ok
           THEN /\ video_id' = p.id
                /\ pc' = "list"
                /\ UNCHANGED <<raised, result>>
           ELSE /\ Raise(p.exc)
                /\ UNCHANGED video_id
    /\ UNCHANGED <<provider, request, transcript_list, transcript,
                   language_used, li, calls>>
    /\ UNCHANGED <<bvars, svars, served>>

\* lines 179-182
ListTranscripts ==
    /\ pc = "list"
    /\ calls' = Append(calls, Call("list_transcripts", video_id))
    /\ \E b \in Shown(video_id) :
          /\ provider' = [provider EXCEPT ![video_id] = Some(b)]
          /\ IF FaultAt(b, "list", "")
             THEN /\ Raise(b.fault.exc)
                  /\ UNCHANGED <<transcript_list, transcript, language_used, li>>
             ELSE /\ transcript_list' = b.tracks
                  /\ transcript' = None
                  /\ language_used' = ""
                  /\ li' = 1
                  /\ pc' = "search_preferred"
                  /\ UNCHANGED <<raised, result>>
    /\ UNCHANGED <<request, video_id>>
    /\ UNCHANGED <<bvars, svars, served>>

\* mutant of SearchPreferred: the break of line 189 is missing, so a later
\* listed language that has a track replaces an earlier one
SearchPreferredNoBreak ==
    /\ pc = "search_preferred"
    /\ li <= Len(request.languages)
    /\ LET lang == request.languages[li]
           hit == find_transcript(transcript_list, <<lang>>)
           last == li = Len(request.languages)
       IN  /\ calls' = Append(calls, Call("find_transcript", <<lang>>))
           /\ IF FaultAt(Behaviour, "find", lang)
              THEN /\ Raise(Behaviour.fault.exc)
                   /\ UNCHANGED <<transcript, language_used, li>>
              ELSE /\ transcript' = IF IsNone(hit) THEN transcript ELSE hit
                   /\ language_used' = IF IsNone(hit) THEN language_used ELSE lang
                   /\ IF last /\ ~IsNone(transcript')
                      THEN pc' = "fetch" /\ UNCHANGED li
                      ELSE li' = li + 1 /\ UNCHANGED pc
                   /\ UNCHANGED <<raised, result>>
    /\ UNCHANGED <<provider, request, video_id, transcript_list>>
    /\ UNCHANGED <<bvars, svars, served>>

\* lines 185-191, one iteration of the loop over request.languages
SearchPreferred ==
    /\ pc = "search_preferred"
    /\ li <= Len(request.languages)
    /\ LET lang == request.languages[li]
           hit == find_transcript(transcript_list, <<lang>>)
       IN  /\ calls' = Append(calls, Call("find_transcript", <<lang>>))
           /\ IF FaultAt(Behaviour, "find", lang)
              THEN /\ Raise(Behaviour.fault.exc)
                   /\ UNCHANGED <<transcript, language_used, li>>
              ELSE IF ~IsNone(hit)
              THEN /\ transcript' = hit
                   /\ language_used' = lang
                   /\ pc' = "fetch"
                   /\ UNCHANGED <<li, raised, result>>
              ELSE /\ li' = li + 1
                   /\ UNCHANGED <<transcript, language_used, pc, raised, result>>
    /\ UNCHANGED <<provider, request, video_id, transcript_list>>
    /\ UNCHANGED <<bvars, svars, served>>

\* mutant of PreferredExhausted: the generated-group lookup is skipped
PreferredExhaustedSkipsAuto ==
    /\ pc = "search_preferred"
    /\ li > Len(request.languages)
    /\ pc' = "search_any"
    /\ UNCHANGED <<provider, request, video_id, transcript_list, transcript,
                   language_used, li, raised, result, calls>>
    /\ UNCHANGED <<bvars, svars, served>>

\* lines 185 and 194: the loop ends with no track recorded
PreferredExhausted ==
    /\ pc = "search_preferred"
    /\ li > Len(request.languages)
    /\ pc' = "search_auto_fallback"
    /\ UNCHANGED <<provider, request, video_id, transcript_list, transcript,
                   language_used, li, raised, result, calls>>
    /\ UNCHANGED <<bvars, svars, served>>

\* lines 194-200
SearchAutoFallback ==
    /\ pc = "search_auto_fallback"
    /\ IsNone(transcript)
    /\ LET hit == find_generated_transcript(transcript_list, request.languages)
       IN  /\ calls' = Append(calls, Call("find_generated_transcript", request.languages))
           /\ IF FaultAt(Behaviour, "generated", "")
              THEN /\ Raise(Behaviour.fault.exc)
                   /\ UNCHANGED <<transcript, language_used>>
              ELSE IF ~IsNone(hit)
              THEN /\ transcript' = hit
                   /\ language_used' = "auto"
                   /\ pc' = "fetch"
                   /\ UNCHANGED <<raised, result>>
              ELSE /\ pc' = "search_any"
                   /\ UNCHANGED <<transcript, language_used, raised, result>>
    /\ UNCHANGED <<provider, request, video_id, transcript_list, li>>
    /\ UNCHANGED <<bvars, svars, served>>

\* lines 200-214: the first track enumerated, or "No transcript available"
SearchAny ==
    /\ pc = "search_any"
    /\ LET first == first_available(transcript_list)
       IN  IF ~IsNone(first)
           THEN /\ transcript' = first
                /\ language_used' = Get(first).language_code
                /\ pc' = "fetch"
                /\ UNCHANGED result
           ELSE /\ result' = Some(NoTranscriptResponse(video_id))
                /\ pc' = "done"
                /\ UNCHANGED <<transcript, language_used>>
    /\ UNCHANGED <<provider, request, video_id, transcript_list, li, raised, calls>>
    /\ UNCHANGED <<bvars, svars, served>>

\* mutant of Fetch: a cue fetch that faults is tried once more
FetchRetriesOnce ==
    /\ pc = "fetch"
    /\ ~IsNone(transcript)
    /\ calls' = Append(calls, Call("fetch", <<Get(transcript).language_code,
                                   IF Get(transcript).is_generated THEN "generated" ELSE "manual">>))
    /\ IF FaultAt(Behaviour, "fetch", "")
       THEN IF calls[Len(calls)].op = "fetch"
            THEN Raise(Behaviour.fault.exc)
            ELSE UNCHANGED <<pc, raised, result>>
       ELSE /\ result' = Some(SuccessResponse(video_id, CuesOf(Get(transcript)), language_used))
            /\ pc' = "done"
            /\ UNCHANGED raised
    /\ UNCHANGED <<provider, request, video_id, transcript_list, transcript,
                   language_used, li>>
    /\ UNCHANGED <<bvars, svars, served>>

\* lines 216-225
Fetch ==
    /\ pc = "fetch"
    /\ ~IsNone(transcript)
    /\ calls' = Append(calls, Call("fetch", <<Get(transcript).language_code,
                                   IF Get(transcript).is_generated THEN "generated" ELSE "manual">>))
    /\ IF FaultAt(Behaviour, "fetch", "")
       THEN Raise(Behaviour.fault.exc)
       ELSE /\ result' = Some(SuccessResponse(video_id, CuesOf(Get(transcript)), language_used))
            /\ pc' = "done"
            /\ UNCHANGED raised
    /\ UNCHANGED <<provider, request, video_id, transcript_list, transcript,
                   language_used, li>>
    /\ UNCHANGED <<bvars, svars, served>>

Resolver ==
    \/ ExtractVideoId
    \/ ListTranscripts
    \/ SearchPreferred
    \/ PreferredExhausted
    \/ SearchAutoFallback
    \/ SearchAny
    \/ Fetch

----------------------------------------------------------------------------
(* One POST /youtube/transcript request *)

NoBatch ==
    /\ batch = None
    /\ bi = 0
    /\ results = << >>
    /\ response = None

NoScrape ==
    /\ srequest = None
    /\ http = None
    /\ spc = "idle"
    /\ soup = None
    /\ content = None
    /\ sresponse = None

FreshFrame ==
    /\ video_id = << >>
    /\ transcript_list = << >>
    /\ transcript = None
    /\ language_used = ""
    /\ li = 0
    /\ raised = None
    /\ result = None

Init ==
    /\ provider = [v \in VideoIds |-> None]
    /\ \E u \in Urls, l \in LangLists : request = TranscriptRequest(u, l)
    /\ pc = "start"
    /\ FreshFrame
    /\ calls = << >>
    /\ NoBatch
    /\ NoScrape
    /\ served = << >>

Next == Resolver

Spec == Init /\ [][Next]_vars

----------------------------------------------------------------------------
(* get_youtube_transcript as a function of the request and of what the     *)
(* provider holds: the response of one call made on its own                *)

\* lines 185-191 from position k of the list: the track and language
\* recorded, the exception that escaped, or neither
RECURSIVE PreferredFrom(_, _, _)
PreferredFrom(b, languages, k) ==
    IF k > Len(languages) THEN [kind |-> "none"]
    ELSE IF FaultAt(b, "find", languages[k])
    THEN [kind |-> "raised", exc |-> b.fault.exc]
    ELSE LET hit == find_transcript(b.tracks, <<languages[k]>>)
         IN  IF ~IsNone(hit)
             THEN [kind |-> "track", track |-> Get(hit), language |-> languages[k]]
             ELSE PreferredFrom(b, languages, k + 1)

\* lines 194-205 when the loop recorded nothing
FallbackOf(b, languages) ==
    IF FaultAt(b, "generated", "")
    THEN [kind |-> "raised", exc |-> b.fault.exc]
    ELSE LET hit == find_generated_transcript(b.tracks, languages)
             first == first_available(b.tracks)
         IN  IF ~IsNone(hit)
             THEN [kind |-> "track", track |-> Get(hit), language |-> "auto"]
             ELSE IF ~IsNone(first)
             THEN [kind |-> "track", track |-> Get(first),
                   language |-> Get(first).language_code]
             ELSE [kind |-> "none"]

\* lines 181-205
SearchOf(b, languages) ==
    LET preferred == PreferredFrom(b, languages, 1)
    IN  IF preferred.kind = "none" THEN FallbackOf(b, languages) ELSE preferred

\* lines 175-250, with held the provider's behaviour for each video
get_youtube_transcript(req, held) ==
    LET p == extract_video_id(req.url)
    IN  IF ~p.ok THEN HandleException(p.exc, req)
        ELSE LET b == Get(held[p.id])
                 found == SearchOf(b, req.languages)
             IN  IF FaultAt(b, "list", "") THEN HandleException(b.fault.exc, req)
                 ELSE IF found.kind = "raised" THEN HandleException(found.exc, req)
                 ELSE IF found.kind = "none" THEN NoTranscriptResponse(p.id)
                 ELSE IF FaultAt(b, "fetch", "") THEN HandleException(b.fault.exc, req)
                 ELSE SuccessResponse(p.id, CuesOf(found.track), found.language)

----------------------------------------------------------------------------
(* get_youtube_transcripts_batch: one POST /youtube/batch request *)

BatchTranscriptRequest(urls, languages) == [urls |-> urls, languages |-> languages]

BatchUrls == {UrlShort, UrlBare, UrlBad}

\* What the provider holds for the videos of a batch
BatchBehaviours ==
    {[tracks |-> << >>, fault |-> NoFault],
     [tracks |-> <<Track("en", FALSE)>>, fault |-> NoFault],
     [tracks |-> <<Track("fr", TRUE)>>,
      fault |-> [stage |-> "fetch", lang |-> "", exc |-> ProviderFault]],
     [tracks |-> <<Track("es", FALSE)>>,
      fault |-> [stage |-> "list", lang |-> "", exc |-> TranscriptsDisabled]]}

\* lines 258-260: the next URL is handed to get_youtube_transcript
BatchCall ==
    /\ ~IsNone(batch)
    /\ pc = "idle"
    /\ bi <= Len(Get(batch).urls)
    /\ request' = TranscriptRequest(Get(batch).urls[bi], Get(batch).languages)
    /\ pc' = "start"
    /\ video_id' = << >>
    /\ transcript_list' = << >>
    /\ transcript' = None
    /\ language_used' = ""
    /\ li' = 0
    /\ raised' = None
    /\ result' = None
    /\ UNCHANGED <<provider, calls, bvars, svars, served>>

\* mutant of BatchAppend: a failed item is left out of the results
BatchAppendSkipsFailed ==
    /\ ~IsNone(batch)
    /\ pc = "done"
    /\ results' = IF Get(result).success THEN Append(results, Get(result)) ELSE results
    /\ bi' = bi + 1
    /\ pc' = "idle"
    /\ UNCHANGED <<provider, request, video_id, transcript_list, transcript,
                   language_used, li, raised, result, calls, batch, response>>
    /\ UNCHANGED <<svars, served>>

\* line 261, and the loop moves on
BatchAppend ==
    /\ ~IsNone(batch)
    /\ pc = "done"
    /\ results' = Append(results, Get(result))
    /\ bi' = bi + 1
    /\ pc' = "idle"
    /\ UNCHANGED <<provider, request, video_id, transcript_list, transcript,
                   language_used, li, raised, result, calls, batch, response>>
    /\ UNCHANGED <<svars, served>>

\* line 263
BatchReturn ==
    /\ ~IsNone(batch)
    /\ pc = "idle"
    /\ bi > Len(Get(batch).urls)
    /\ response' = Some([results |-> results, total |-> Len(results)])
    /\ pc' = "returned"
    /\ UNCHANGED <<tvars_but_pc, batch, bi, results, svars, served>>

InitBatch ==
    /\ provider \in [VideoIds -> {Some(b) : b \in BatchBehaviours}]
    /\ \E us \in SeqsUpTo(BatchUrls, MaxUrls), l \in LangLists :
          batch = Some(BatchTranscriptRequest(us, l))
    /\ request = TranscriptRequest(<< >>, << >>)
    /\ pc = "idle"
    /\ FreshFrame
    /\ calls = << >>
    /\ bi = 1
    /\ results = << >>
    /\ response = None
    /\ NoScrape
    /\ served = << >>

NextBatch ==
    \/ BatchCall
    \/ Resolver
    \/ BatchAppend
    \/ BatchReturn

SpecBatch == InitBatch /\ [][NextBatch]_vars

----------------------------------------------------------------------------
(* Page text.  The text of a page is kept as runs: a character and how    *)
(* many times it is repeated, neighbouring runs holding different         *)
(* characters, so that texts of 50,000 characters and more stay small.    *)

MaxNodes == 3
Slack == 1
ContentLimit == 50000

Run(c, n) == IF n = 0 THEN << >> ELSE <<[ch |-> c, n |-> n]>>

\* a + b
Cat(a, b) ==
    IF a = << >> THEN b
    ELSE IF b = << >> THEN a
    ELSE IF a[Len(a)].ch = b[1].ch
    THEN SubSeq(a, 1, Len(a) - 1)
         \o <<[ch |-> b[1].ch, n |-> a[Len(a)].n + b[1].n]>>
         \o Tail(b)
    ELSE a \o b

RECURSIVE TLen(_)
\* len(t)
TLen(t) == IF t = << >> THEN 0 ELSE t[1].n + TLen(Tail(t))

IsSpace(c) == c \in {" ", "\n", "\t"}

RECURSIVE LStrip(_)
LStrip(t) == IF t # << >> /\ IsSpace(t[1].ch) THEN LStrip(Tail(t)) ELSE t

RECURSIVE RStrip(_)
RStrip(t) ==
    IF t # << >> /\ IsSpace(t[Len(t)].ch) THEN RStrip(SubSeq(t, 1, Len(t) - 1)) ELSE t

\* t.strip()
Strip(t) == RStrip(LStrip(t))

RECURSIVE Take(_, _)
\* t[:k]
Take(t, k) ==
    IF k <= 0 \/ t = << >> THEN << >>
    ELSE IF t[1].n >= k THEN <<[ch |-> t[1].ch, n |-> k]>>
    ELSE Cat(<<t[1]>>, Take(Tail(t), k - t[1].n))

RECURSIVE JoinRuns(_, _)
\* sep.join(texts)
JoinRuns(texts, sep) ==
    IF Len(texts) = 0 THEN << >>
    ELSE IF Len(texts) = 1 THEN texts[1]
    ELSE Cat(Cat(texts[1], sep), JoinRuns(Tail(texts), sep))

----------------------------------------------------------------------------
(* The parsed page.  nodes lists the elements in document order; each has *)
(* its tag, its parent (0: the document) and the text it holds before its *)
(* first child.  alive holds the elements not decomposed.                 *)

\* soup(["script", "style", "nav", "footer", "header"]), line 90
StripKinds == {"script", "style", "nav", "footer", "header"}

\* elements whose content the parser reads as text only
LeafKinds == {"script", "style", "title"}

RECURSIVE Path(_, _)
\* element i and its ancestors
Path(nodes, i) == IF i = 0 THEN {} ELSE {i} \cup Path(nodes, nodes[i].parent)

Indices(n) == [i \in 1 .. n |-> i]

\* soup.find_all(kinds): the matching elements in document order
find_all(sp, kinds) ==
    SelectSeq(Indices(Len(sp.nodes)),
              LAMBDA i : i \in sp.alive /\ sp.nodes[i].tag \in kinds)

\* soup.find(kind): the first matching element, or None
find(sp, kind) ==
    LET all == find_all(sp, {kind})
    IN  IF Len(all) = 0 THEN None ELSE Some(all[1])

\* element.decompose(): the element and all below it leave the tree
decompose(sp, i) ==
    [sp EXCEPT !.alive = {j \in @ : i \notin Path(sp.nodes, j)}]

RECURSIVE DecomposeEach(_, _)
\* for script in found: script.decompose()
DecomposeEach(sp, found) ==
    IF Len(found) = 0 THEN sp
    ELSE DecomposeEach(decompose(sp, found[1]), Tail(found))

\* mutant of Pruned: only script and style elements are removed
PrunedScriptsOnly(sp) == DecomposeEach(sp, find_all(sp, {"script", "style"}))

\* lines 90-91
Pruned(sp) == DecomposeEach(sp, find_all(sp, StripKinds))

\* the strings below element i, in document order
StringsOf(sp, i) ==
    LET holders == SelectSeq(Indices(Len(sp.nodes)),
                       LAMBDA j : /\ j \in sp.alive
                                  /\ i \in Path(sp.nodes, j)
                                  /\ sp.nodes[j].text # << >>)
    IN  [k \in 1 .. Len(holders) |-> sp.nodes[holders[k]].text]

\* element.get_text(separator=sep, strip=True): every string stripped, the
\* empty ones dropped, the rest joined by sep
get_text(sp, i, sep) ==
    LET stripped == [k \in 1 .. Len(StringsOf(sp, i)) |-> Strip(StringsOf(sp, i)[k])]
    IN  JoinRuns(SelectSeq(stripped, LAMBDA t : t # << >>), sep)

Children(sp, i) ==
    SelectSeq(Indices(Len(sp.nodes)),
              LAMBDA j : j \in sp.alive /\ sp.nodes[j].parent = i)

RECURSIVE StringOf(_, _)
\* element.string: the only string of the element, or of its only child
StringOf(sp, i) ==
    LET own == sp.nodes[i].text
        kids == Children(sp, i)
    IN  IF own # << >> /\ Len(kids) = 0 THEN Some(own)
        ELSE IF own = << >> /\ Len(kids) = 1 THEN StringOf(sp, kids[1])
        ELSE None

\* line 94
TitleOf(sp) ==
    IF IsNone(find(sp, "title")) THEN None ELSE StringOf(sp, Get(find(sp, "title")))

\* The selectors of the model are type selectors: a tag name selects the
\* elements of that tag; anything else is a syntax error of soup.select
PageTags == {"nav", "script", "main", "article", "body", "title"}
KnownTags == PageTags \cup StripKinds \cup {"h1", "div"}
SelectorSyntaxError == Exc("SelectorSyntaxError", <<"Malformed attribute selector">>)

\* mutant of ContentOf: without a selector the article comes before main
ContentOfArticleFirst(sp, selector) ==
    IF ~IsNone(selector) /\ Get(selector) # ""
    THEN IF Get(selector) \notin KnownTags
         THEN [ok |-> FALSE, exc |-> SelectorSyntaxError]
         ELSE LET elements == find_all(sp, {Get(selector)})
              IN  [ok |-> TRUE,
                   content |-> JoinRuns([k \in 1 .. Len(elements) |->
                                            get_text(sp, elements[k], << >>)],
                                        Run("\n", 1))]
    ELSE LET main == IF ~IsNone(find(sp, "article")) THEN find(sp, "article")
                     ELSE IF ~IsNone(find(sp, "main")) THEN find(sp, "main")
                     ELSE find(sp, "body")
         IN  [ok |-> TRUE,
              content |-> IF ~IsNone(main) THEN get_text(sp, Get(main), Run("\n", 1))
                          ELSE << >>]

\* mutant of ContentOf: a selector that matches nothing falls back to the
\* main, article or body region
ContentOfFallsBack(sp, selector) ==
    IF /\ ~IsNone(selector) /\ Get(selector) # ""
       /\ Get(selector) \notin KnownTags
    THEN [ok |-> FALSE, exc |-> SelectorSyntaxError]
    ELSE IF /\ ~IsNone(selector) /\ Get(selector) # ""
            /\ Len(find_all(sp, {Get(selector)})) > 0
    THEN LET elements == find_all(sp, {Get(selector)})
         IN  [ok |-> TRUE,
              content |-> JoinRuns([k \in 1 .. Len(elements) |->
                                       get_text(sp, elements[k], << >>)],
                                   Run("\n", 1))]
    ELSE LET main == IF ~IsNone(find(sp, "main")) THEN find(sp, "main")
                     ELSE IF ~IsNone(find(sp, "article")) THEN find(sp, "article")
                     ELSE find(sp, "body")
         IN  [ok |-> TRUE,
              content |-> IF ~IsNone(main) THEN get_text(sp, Get(main), Run("\n", 1))
                          ELSE << >>]

\* lines 96-103: [ok |-> TRUE, content |-> ...] or [ok |-> FALSE, exc |-> ...]
ContentOf(sp, selector) ==
    IF ~IsNone(selector) /\ Get(selector) # ""
    THEN IF Get(selector) \notin KnownTags
         THEN [ok |-> FALSE, exc |-> SelectorSyntaxError]
         ELSE LET elements == find_all(sp, {Get(selector)})
              IN  [ok |-> TRUE,
                   content |-> JoinRuns([k \in 1 .. Len(elements) |->
                                            get_text(sp, elements[k], << >>)],
                                        Run("\n", 1))]
    ELSE LET main == IF ~IsNone(find(sp, "main")) THEN find(sp, "main")
                     ELSE IF ~IsNone(find(sp, "article")) THEN find(sp, "article")
                     ELSE find(sp, "body")
         IN  [ok |-> TRUE,
              content |-> IF ~IsNone(main) THEN get_text(sp, Get(main), Run("\n", 1))
                          ELSE << >>]

----------------------------------------------------------------------------
(* scrape_url: the responses *)

ScrapeRequest(url, selector) == [url |-> url, selector |-> selector]

ScrapeResponse(url, title, text, ok, err) ==
    [url |-> url, title |-> title, content |-> text, success |-> ok, error |-> err]

\* mutant of Capped: an ellipsis marks the cut
CappedWithMark(text) ==
    IF TLen(text) > ContentLimit THEN Cat(Take(text, ContentLimit), Run(".", 3)) ELSE text

\* content[:50000], line 108
Capped(text) == Take(text, ContentLimit)

\* lines 105-110
ScrapeSuccess(req, title, text) ==
    ScrapeResponse(req.url, title, Capped(text), TRUE, None)

\* mutant of ScrapeFailure: the generic clause comes first
ScrapeFailureGenericFirst(req, e) ==
    ScrapeResponse(req.url, None, << >>, FALSE, Some(e.msg))

\* lines 112-122
ScrapeFailure(req, e) ==
    IF e.type = "HTTPStatusError"
    THEN ScrapeResponse(req.url, None, << >>, FALSE, Some(<<"HTTP error ", e.status>>))
    ELSE ScrapeResponse(req.url, None, << >>, FALSE, Some(e.msg))

----------------------------------------------------------------------------
(* Inputs of the scrape endpoint *)

PageUrl == <<"https://example.com/news">>

Selectors == {None, Some(""), Some("article"), Some("nav"), Some("[")}

\* the parents the next element of a page can have: the document, or an
\* element still open after the last one (the last one or an ancestor of it)
OpenAt(nodes) ==
    {0} \cup {j \in Path(nodes, Len(nodes)) : nodes[j].tag \notin LeafKinds}

RECURSIVE PagesOfSize(_, _, _)
\* the pages of exactly n elements with tags from tags, element i holding
\* one of texts[i]
PagesOfSize(tags, texts, n) ==
    IF n = 0 THEN {<< >>}
    ELSE {p \in {Append(d, [tag |-> t, parent |-> q, text |-> x]) :
                    d \in PagesOfSize(tags, texts, n - 1),
                    t \in tags, q \in 0 .. (n - 1), x \in texts[n]} :
             p[n].parent \in OpenAt(SubSeq(p, 1, n - 1))}

\* the pages of at most n elements
RECURSIVE PagesOf(_, _, _)
PagesOf(tags, texts, n) ==
    IF n = 0 THEN PagesOfSize(tags, texts, 0)
    ELSE PagesOf(tags, texts, n - 1) \cup PagesOfSize(tags, texts, n)

Tok == <<"a", "b", "c", "d", "e", "f">>

\* the texts element i of a page can hold: its own character, plain or
\* padded with white space, or white space only
PageTexts(i) ==
    IF i % 3 = 2 THEN {Cat(Cat(Run(" ", 1), Run(Tok[i], 1)), Run("\n", 2))}
    ELSE IF i % 3 = 0 THEN {Run(" ", 2), Run(Tok[i], 1)}
    ELSE {Run(Tok[i], 1)}

Pages == PagesOf(PageTags, [i \in 1 .. MaxNodes |-> PageTexts(i)], MaxNodes)

\* pages whose texts are empty, short, or as long as the cap give or take Slack
CapLengths == {0, 1} \cup ((ContentLimit - Slack) .. (ContentLimit + Slack))
CapPages ==
    PagesOf({"main", "article"}, [i \in 1 .. 2 |-> {Run(Tok[i], k) : k \in CapLengths}], 2)

HTTPStatusError(status) == [type |-> "HTTPStatusError", status |-> status, msg |-> << >>]
ConnectError == Exc("ConnectError", <<"All connection attempts failed">>)
ReadTimeout == Exc("ReadTimeout", << >>)
\* what BeautifulSoup raises when html.parser gives up on the markup
ParserRejectedMarkup == Exc("ParserRejectedMarkup", <<"The markup could not be parsed">>)

\* What the GET can meet: a page, a non-success status, a transport fault
Outcomes(pages) ==
    {[kind |-> "ok", body |-> d] : d \in pages}
    \cup {[kind |-> "raised", exc |-> HTTPStatusError(c)] : c \in {"404", "500"}}
    \cup {[kind |-> "raised", exc |-> e] :
            e \in {ConnectError, ReadTimeout, ParserRejectedMarkup}}

----------------------------------------------------------------------------
(* scrape_url, step by step *)

\* lines 77-87: the GET, raise_for_status and the parse
ScrapeGet ==
    /\ spc = "start"
    /\ IF http.kind = "ok"
       THEN /\ soup' = Some([nodes |-> http.body, alive |-> 1 .. Len(http.body)])
            /\ spc' = "prune"
            /\ UNCHANGED sresponse
       ELSE /\ sresponse' = Some(ScrapeFailure(srequest, http.exc))
            /\ spc' = "done"
            /\ UNCHANGED soup
    /\ UNCHANGED <<srequest, http, content>>
    /\ UNCHANGED <<tvars, bvars, served>>

\* lines 90-91
ScrapePrune ==
    /\ spc = "prune"
    /\ soup' = Some(Pruned(Get(soup)))
    /\ spc' = "extract"
    /\ UNCHANGED <<srequest, http, content, sresponse>>
    /\ UNCHANGED <<tvars, bvars, served>>

\* lines 94-110, and the except clause of line 119 for a bad selector
ScrapeExtract ==
    /\ spc = "extract"
    /\ LET got == ContentOf(Get(soup), srequest.selector)
       IN  IF got.ok
           THEN /\ content' = Some(got.content)
                /\ sresponse' = Some(ScrapeSuccess(srequest, TitleOf(Get(soup)), got.content))
           ELSE /\ sresponse' = Some(ScrapeFailure(srequest, got.exc))
                /\ UNCHANGED content
    /\ spc' = "done"
    /\ UNCHANGED <<srequest, http, soup>>
    /\ UNCHANGED <<tvars, bvars, served>>

NoTranscript ==
    /\ provider = [v \in VideoIds |-> None]
    /\ request = TranscriptRequest(<< >>, << >>)
    /\ pc = "idle"
    /\ FreshFrame
    /\ calls = << >>
    /\ NoBatch
    /\ served = << >>

ScrapeStart(pages) ==
    /\ \E sel \in Selectors : srequest = ScrapeRequest(PageUrl, sel)
    /\ http \in Outcomes(pages)
    /\ spc = "start"
    /\ soup = None
    /\ content = None
    /\ sresponse = None
    /\ NoTranscript

InitScrape == ScrapeStart(Pages)

NextScrape ==
    \/ ScrapeGet
    \/ ScrapePrune
    \/ ScrapeExtract

SpecScrape == InitScrape /\ [][NextScrape]_vars

\* the same requests against pages whose texts are as long as the cap
InitCap == ScrapeStart(CapPages)

SpecCap == InitCap /\ [][NextScrape]_vars

----------------------------------------------------------------------------
(* extract_video_id on its own: line 176 applied to inputs put together    *)
(* from markers, identifiers and other text                                *)

MaxParts == 3

Marked(m, id) == Markers[m] \o id

\* the pieces an input is put together from
UrlParts ==
    {Marked(m, IdA) : m \in 1 .. Len(Markers)}
    \cup {Marked(1, IdB), IdA, IdB, Markers[1]}
    \cup {<<"a", "b", "c">>, <<"&">>, <<"\n">>}

RECURSIVE Flatten(_)
Flatten(parts) == IF Len(parts) = 0 THEN << >> ELSE parts[1] \o Flatten(Tail(parts))

ParseInputs == {Flatten(ps) : ps \in SeqsUpTo(UrlParts, MaxParts)}

InitParse ==
    /\ provider = [v \in VideoIds |-> None]
    /\ \E u \in ParseInputs : request = TranscriptRequest(u, << >>)
    /\ pc = "start"
    /\ FreshFrame
    /\ calls = << >>
    /\ NoBatch
    /\ NoScrape
    /\ served = << >>

NextParse == ExtractVideoId

SpecParse == InitParse /\ [][NextParse]_vars

----------------------------------------------------------------------------
(* scrape_url as a function of the request and of what the GET meets *)

\* lines 76-122
scrape_url(req, met) ==
    IF met.kind # "ok" THEN ScrapeFailure(req, met.exc)
    ELSE LET sp == Pruned([nodes |-> met.body, alive |-> 1 .. Len(met.body)])
             got == ContentOf(sp, req.selector)
         IN  IF got.ok THEN ScrapeSuccess(req, TitleOf(sp), got.content)
             ELSE ScrapeFailure(req, got.exc)

----------------------------------------------------------------------------
(* The service: requests arrive one after another at both endpoints, each  *)
(* handled in a frame of its own, against external content that stays as   *)
(* it is.  A transcript request and a scrape request can be in progress    *)
(* at the same time.                                                       *)

MaxRequests == 3

ServiceTranscriptRequests ==
    {TranscriptRequest(UrlShort, <<"es">>),
     TranscriptRequest(UrlShort, <<"en", "es">>),
     TranscriptRequest(UrlBad, <<"es">>)}

ServiceSelectors == {None, Some("article")}

\* What the provider holds for the videos asked for
ServiceBehaviours ==
    {[tracks |-> <<Track("en", FALSE), Track("es", TRUE)>>, fault |-> NoFault],
     [tracks |-> <<Track("es", FALSE)>>,
      fault |-> [stage |-> "find", lang |-> "en", exc |-> ProviderFault]],
     [tracks |-> <<Track("fr", FALSE)>>, fault |-> NoFault]}

ServiceProviders == {[v \in VideoIds |-> Some(b)] : b \in ServiceBehaviours}

ServicePages ==
    {<< [tag |-> "title", parent |-> 0, text |-> Run("a", 1)],
        [tag |-> "article", parent |-> 0, text |-> Run("b", 1)],
        [tag |-> "main", parent |-> 0, text |-> Run("c", 1)] >>}

ServiceOutcomes ==
    {o \in Outcomes(ServicePages) : o.kind = "ok" \/ o.exc = HTTPStatusError("404")}

Served(kind, req, resp) == [kind |-> kind, request |-> req, response |-> resp]

\* mutant of ReceiveTranscript: a response given before for the same URL is
\* given again, whatever the languages asked for
ReceiveTranscriptCached ==
    /\ pc = "idle"
    /\ IsNone(batch)
    /\ Len(served) < MaxRequests
    /\ \E req \in ServiceTranscriptRequests :
          LET before == {i \in 1 .. Len(served) :
                            /\ served[i].kind = "transcript"
                            /\ served[i].request.url = req.url}
          IN  /\ request' = req
              /\ IF before = {}
                 THEN pc' = "start" /\ result' = None
                 ELSE /\ pc' = "done"
                      /\ result' = Some(served[CHOOSE i \in before : TRUE].response)
    /\ video_id' = << >>
    /\ transcript_list' = << >>
    /\ transcript' = None
    /\ language_used' = ""
    /\ li' = 0
    /\ raised' = None
    /\ UNCHANGED <<provider, calls, bvars, svars, served>>

\* lines 172-175: a request reaches get_youtube_transcript, whose locals
\* are those of this call
ReceiveTranscript ==
    /\ pc = "idle"
    /\ IsNone(batch)
    /\ Len(served) < MaxRequests
    /\ \E req \in ServiceTranscriptRequests : request' = req
    /\ pc' = "start"
    /\ video_id' = << >>
    /\ transcript_list' = << >>
    /\ transcript' = None
    /\ language_used' = ""
    /\ li' = 0
    /\ raised' = None
    /\ result' = None
    /\ UNCHANGED <<provider, calls, bvars, svars, served>>

\* the return statements of lines 208, 220, 228, 236, 244
ReplyTranscript ==
    /\ pc = "done"
    /\ IsNone(batch)
    /\ served' = Append(served, Served("transcript", request, Get(result)))
    /\ pc' = "idle"
    /\ UNCHANGED <<tvars_but_pc, bvars, svars>>

\* lines 73-76: a request reaches scrape_url
ReceiveScrape ==
    /\ spc = "idle"
    /\ Len(served) < MaxRequests
    /\ \E sel \in ServiceSelectors : srequest' = ScrapeRequest(PageUrl, sel)
    /\ spc' = "start"
    /\ soup' = None
    /\ content' = None
    /\ sresponse' = None
    /\ UNCHANGED <<http, tvars, bvars, served>>

\* the return statements of lines 105, 113, 120
ReplyScrape ==
    /\ spc = "done"
    /\ served' = Append(served, Served("scrape", srequest, Get(sresponse)))
    /\ spc' = "idle"
    /\ UNCHANGED <<srequest, http, soup, content, sresponse, tvars, bvars>>

InitService ==
    /\ provider \in ServiceProviders
    /\ http \in ServiceOutcomes
    /\ request = TranscriptRequest(<< >>, << >>)
    /\ pc = "idle"
    /\ FreshFrame
    /\ calls = << >>
    /\ NoBatch
    /\ srequest = ScrapeRequest(PageUrl, None)
    /\ spc = "idle"
    /\ soup = None
    /\ content = None
    /\ sresponse = None
    /\ served = << >>

NextService ==
    \/ ReceiveTranscript
    \/ Resolver
    \/ ReplyTranscript
    \/ ReceiveScrape
    \/ ScrapeGet
    \/ ScrapePrune
    \/ ScrapeExtract
    \/ ReplyScrape

SpecService == InitService /\ [][NextService]_vars

----------------------------------------------------------------------------
(* What the claims speak of, read off the request and the provider *)

Returned == pc = "done" /\ ~IsNone(result)
R == Get(result)

\* the parser's answer for each input of the model, computed once
ParsedInputs == [u \in Urls |-> extract_video_id(u)]
UnmatchedInputs == {u \in Urls : IsNone(SearchMarked(u)) /\ IsNone(SearchBare(u))}

Parsed == ParsedInputs[request.url]
MatchesNoPattern(url) == url \in UnmatchedInputs

\* the provider's behaviour for the video the request names
B == Get(provider[Parsed.id])
Tracks == B.tracks
Langs == request.languages

CallStage(c) ==
    CASE c.op = "list_transcripts" -> "list"
      [] c.op = "find_transcript" -> "find"
      [] c.op = "find_generated_transcript" -> "generated"
      [] OTHER -> "fetch"
CallLang(c) == IF c.op = "find_transcript" THEN c.arg[1] ELSE ""

\* provider call number i of this resolution hit the provider's fault
CallFaulted(i) == FaultAt(B, CallStage(calls[i]), CallLang(calls[i]))
FaultFree == \A i \in 1 .. Len(calls) : ~CallFaulted(i)
LastCallRaised(e) ==
    /\ Len(calls) > 0
    /\ CallFaulted(Len(calls))
    /\ B.fault.exc = e

HasTrack(code) == \E i \in 1 .. Len(Tracks) : Tracks[i].language_code = code
HasManual(code) == \E i \in 1 .. Len(Tracks) : Tracks[i] = Track(code, FALSE)
HasGenerated(code) == \E i \in 1 .. Len(Tracks) : Tracks[i] = Track(code, TRUE)
ListedWithTrack == {k \in 1 .. Len(Langs) : HasTrack(Langs[k])}
EarliestListed == CHOOSE k \in ListedWithTrack : \A j \in ListedWithTrack : k <= j

\* the text of a track: its cue texts with one space between neighbours
RECURSIVE SpacedText(_)
SpacedText(cues) ==
    IF Len(cues) = 0 THEN << >>
    ELSE IF Len(cues) = 1 THEN cues[1].text
    ELSE cues[1].text \o <<" ">> \o SpacedText(Tail(cues))

FetchedLast(t) ==
    /\ Len(calls) > 0
    /\ calls[Len(calls)] = Call("fetch", <<t.language_code,
                                IF t.is_generated THEN "generated" ELSE "manual">>)
NoFetch == \A i \in 1 .. Len(calls) : calls[i].op # "fetch"

----------------------------------------------------------------------------
(* The claims about get_youtube_transcript *)

\* C1: when no provider call faults and some listed language has a track
\* (manual or generated), the result is ok with resolved_language the
\* earliest listed language that has a track, never "auto", and the text is
\* that of a track of that language.
C1_LanguageOrderDominates ==
    (Returned /\ Parsed.ok /\ FaultFree /\ ListedWithTrack # {}) =>
        /\ R.success
        /\ R.language = Langs[EarliestListed]
        /\ R.language # "auto"
        /\ \E i \in 1 .. Len(Tracks) :
              /\ Tracks[i].language_code = R.language
              /\ R.transcript = SpacedText(CuesOf(Tracks[i]))
              /\ FetchedLast(Tracks[i])

\* C1 witness: languages es, en with only a manual en track resolves to en.
C1_Witness ==
    /\ Returned /\ Parsed.ok /\ FaultFree
    /\ Langs = <<"es", "en">>
    /\ Tracks = <<Track("en", FALSE)>>
    /\ R.success
    /\ R.language = "en"
    /\ R.transcript = <<"Hello", " ", "world">>

\* the tracks matching the preference set are all generated
OnlyGeneratedPreferred ==
    /\ \E k \in 1 .. Len(Langs) : HasGenerated(Langs[k])
    /\ \A k \in 1 .. Len(Langs) : ~HasManual(Langs[k])

\* C2: when only generated tracks match the preference set and no provider
\* call faults, the result is ok with resolved_language "auto" and the text
\* is the cue texts of that track joined by single spaces.
C2_OnlyGeneratedGivesAuto ==
    (Returned /\ Parsed.ok /\ FaultFree /\ OnlyGeneratedPreferred) =>
        /\ R.success
        /\ R.language = "auto"
        /\ \E i \in 1 .. Len(Tracks) :
              /\ Tracks[i].is_generated
              /\ R.transcript = SpacedText(CuesOf(Tracks[i]))

WellFormed(r) ==
    /\ DOMAIN r = {"video_id", "title", "transcript", "language", "success", "error"}
    /\ r.success \in BOOLEAN
    /\ r.title = None
    /\ Len(r.error) <= 1
    /\ r.video_id \in {request.url} \cup VideoIds
    /\ r.language \in LangCodes \cup TrackCodes \cup {"", "auto"}

\* the resolution neither stops short of a result nor returns twice: the
\* result is present exactly at "done", where no step is enabled, and at
\* every other position the step of that position is enabled
OneResult ==
    /\ (pc = "done") <=> ~IsNone(result)
    /\ pc \in {"start", "list", "search_preferred", "search_auto_fallback",
               "search_any", "fetch", "done"}
    /\ pc = "search_auto_fallback" => IsNone(transcript)
    /\ pc = "fetch" => ~IsNone(transcript)
    /\ pc \in {"list", "search_preferred", "search_auto_fallback", "search_any", "fetch"}
          => video_id \in DOMAIN provider

Failed == ~Parsed.ok \/ ~FaultFree

\* C3 as claimed: one well-formed result whatever the provider does, and
\* every fault gives ok=false with a non-empty error.
C3_FaultsGiveNonEmptyError ==
    /\ OneResult
    /\ Returned => WellFormed(R)
    /\ (Returned /\ Failed) =>
          /\ ~R.success
          /\ ~IsNone(R.error)
          /\ Get(R.error) # << >>

\* the string form of the fault a failed resolution met
CauseText ==
    IF ~Parsed.ok THEN <<"Could not extract video ID from: ">> \o request.url
    ELSE IF B.fault.exc.type = "TranscriptsDisabled"
    THEN <<"Transcripts are disabled for this video">>
    ELSE B.fault.exc.msg

\* C3 amended: one well-formed result whatever the provider does, and every
\* fault gives ok=false with an error that is present and is the fixed
\* message or the cause's string form (empty when the cause's message is).
C3_FaultsGiveError ==
    /\ OneResult
    /\ Returned => WellFormed(R)
    /\ (Returned /\ Failed) =>
          /\ ~R.success
          /\ R.transcript = << >>
          /\ R.error = Some(CauseText)

\* C3 witness: a cue fetch that faults with an empty message has returned.
C3_Witness ==
    /\ Returned /\ Parsed.ok
    /\ LastCallRaised(SilentFault)
    /\ calls[Len(calls)].op = "fetch"
    /\ ~R.success
    /\ R.error = Some(<< >>)

\* C4: when the enumeration succeeds with no tracks (and no lookup faults),
\* the result is ok=false, "No transcript available", empty text and
\* language, and no cue fetch is made.
C4_ZeroTracks ==
    (Returned /\ Parsed.ok /\ FaultFree /\ Tracks = << >>) =>
        /\ R = [video_id |-> Parsed.id, title |-> None, transcript |-> << >>,
                language |-> "", success |-> FALSE,
                error |-> Some(<<"No transcript available">>)]
        /\ NoFetch

\* C4 witness: a listed, fault-free resolution of a video with no tracks.
C4_Witness ==
    /\ Returned /\ Parsed.ok /\ FaultFree /\ Tracks = << >>
    /\ Len(Langs) = MaxLangs
    /\ Len(calls) = MaxLangs + 2
    /\ ~R.success

\* C5: when no track matches a preferred language and a track exists (and
\* no provider call faults), the first track enumerated is fetched and the
\* result is ok with that track's own language code.
C5_SearchAny ==
    (Returned /\ Parsed.ok /\ FaultFree /\ ListedWithTrack = {} /\ Len(Tracks) > 0) =>
        /\ R.success
        /\ R.language = Tracks[1].language_code
        /\ R.transcript = SpacedText(CuesOf(Tracks[1]))
        /\ R.video_id = Parsed.id
        /\ FetchedLast(Tracks[1])

\* C5 witness: two unlisted tracks, the first one is returned.
C5_Witness ==
    /\ Returned /\ Parsed.ok /\ FaultFree
    /\ Langs = <<"en">>
    /\ Tracks = <<Track("fr", FALSE), Track("es", TRUE)>>
    /\ R.success
    /\ R.language = "fr"

\* C6: an input that matches neither pattern gives ok=false with the
\* parser's message, video_id the raw input, empty text, and a result is
\* returned (with no provider call made).
C6_InvalidReference ==
    /\ (pc # "start" /\ MatchesNoPattern(request.url)) => Returned
    /\ (Returned /\ MatchesNoPattern(request.url)) =>
          /\ ~Parsed.ok
          /\ R = [video_id |-> request.url, title |-> None, transcript |-> << >>,
                  language |-> "", success |-> FALSE,
                  error |-> Some(<<"Could not extract video ID from: ">> \o request.url)]
          /\ calls = << >>

\* C6 witness: the URL with a too-short identifier has been rejected.
C6_Witness ==
    /\ Returned
    /\ request.url = UrlBad
    /\ MatchesNoPattern(request.url)
    /\ ~R.success
    /\ R.video_id = UrlBad

\* C7: whichever provider call reports TranscriptsDisabled, the result is
\* ok=false with exactly the fixed message and empty text, not the cause's
\* string form.
C7_TranscriptsDisabled ==
    (Returned /\ Parsed.ok /\ LastCallRaised(TranscriptsDisabled)) =>
        /\ ~R.success
        /\ R.error = Some(<<"Transcripts are disabled for this video">>)
        /\ R.error # Some(TranscriptsDisabled.msg)
        /\ R.transcript = << >>
        /\ R.language = ""

\* C7 witness: the cue fetch reported TranscriptsDisabled.
C7_Witness ==
    /\ Returned /\ Parsed.ok
    /\ LastCallRaised(TranscriptsDisabled)
    /\ calls[Len(calls)].op = "fetch"
    /\ ~R.success

\* the position of a stage in the order of the resolver
StageRank(p) ==
    CASE p = "start" -> 0
      [] p = "list" -> 1
      [] p = "search_preferred" -> 2
      [] p = "search_auto_fallback" -> 3
      [] p = "search_any" -> 4
      [] p = "fetch" -> 5
      [] OTHER -> 6

\* the lookups of the loop of line 185 made so far, in order
FindCalls == SelectSeq(calls, LAMBDA c : c.op = "find_transcript")
GroupLookups == SelectSeq(calls, LAMBDA c : c.op = "find_generated_transcript")

\* what holds in each stage: how it was reached
StageEntry ==
    /\ pc = "search_auto_fallback" =>
          /\ IsNone(transcript)
          /\ FindCalls = [k \in 1 .. Len(request.languages) |->
                             Call("find_transcript", <<request.languages[k]>>)]
          /\ \A k \in 1 .. Len(request.languages) :
                ~\E i \in 1 .. Len(transcript_list) :
                    transcript_list[i].language_code = request.languages[k]
          /\ GroupLookups = << >>
    /\ pc = "search_any" =>
          /\ IsNone(transcript)
          /\ Len(GroupLookups) = 1
          /\ calls[Len(calls)] = Call("find_generated_transcript", request.languages)
          /\ ~\E i \in 1 .. Len(transcript_list), k \in 1 .. Len(request.languages) :
                /\ transcript_list[i].is_generated
                /\ transcript_list[i].language_code = request.languages[k]
    /\ pc = "fetch" =>
          /\ ~IsNone(transcript)
          /\ \E i \in 1 .. Len(transcript_list) : transcript_list[i] = Get(transcript)

\* what a step can do: stages only move forward, only the loop over the
\* languages takes more than one step, and once a track is recorded the
\* only steps left are the fetch and the return
StageStep ==
    /\ StageRank(pc') >= StageRank(pc)
    /\ (pc' = pc /\ pc # "done") => pc = "search_preferred"
    /\ ~IsNone(transcript) =>
          /\ pc = "fetch"
          /\ pc' = "done"
          /\ transcript' = transcript
          /\ language_used' = language_used

\* C16: the stages occur only in the order SEARCH_PREFERRED,
\* SEARCH_AUTO_FALLBACK, SEARCH_ANY, FETCH, DONE, none revisited; the
\* auto fallback is entered only after every listed language was looked up
\* and missed, SEARCH_ANY only after the generated-group lookup missed,
\* FETCH only with a track recorded, and with a track recorded no search
\* stage runs any more.
C16_StageOrder == [](StageEntry) /\ [][StageStep]_vars

\* C16 witness: every stage was gone through: the listed language missed,
\* the generated-group lookup missed, the first track was recorded and
\* the resolver stands at the fetch.
C16_Witness ==
    /\ pc = "fetch"
    /\ Len(request.languages) = MaxLangs
    /\ Len(FindCalls) = MaxLangs
    /\ Len(GroupLookups) = 1
    /\ transcript = Some(transcript_list[1])

\* C18: a result with ok=true has no error, the parsed 11-character
\* identifier as video_id and a language that is an entry of the caller's
\* list, "auto" or the code of an enumerated track; a result with ok=false
\* has an error, empty text and empty language, whatever the search had
\* recorded.
C18_ResultConsistency ==
    Returned =>
        /\ R.success =>
              /\ IsNone(R.error)
              /\ Parsed.ok
              /\ R.video_id = Parsed.id
              /\ Len(R.video_id) = IdLen
              /\ \A k \in 1 .. Len(R.video_id) : R.video_id[k] \in IdChars
              /\ \/ \E k \in 1 .. Len(Langs) : R.language = Langs[k]
                 \/ R.language = "auto"
                 \/ \E i \in 1 .. Len(Tracks) : R.language = Tracks[i].language_code
        /\ ~R.success =>
              /\ ~IsNone(R.error)
              /\ R.transcript = << >>
              /\ R.language = ""

\* C18 witness: the search recorded a language and the cue fetch then
\* failed; the result carries no language.
C18_Witness ==
    /\ Returned
    /\ language_used = "en"
    /\ ~IsNone(transcript)
    /\ calls[Len(calls)].op = "fetch"
    /\ ~R.success
    /\ R.language = ""

NoTranscriptAvailable == R.error = Some(<<"No transcript available">>)

\* C19: when the identifier parsed and a provider call then raised
\* (TranscriptsDisabled or any other fault, at the enumeration, a lookup or
\* the cue fetch), video_id is the raw input URL; a success and the "No
\* transcript available" failure carry the parsed identifier, and they
\* alone do when the URL is not itself the identifier.
C19_VideoIdOnFailure ==
    (Returned /\ Parsed.ok) =>
        /\ ~FaultFree <=> ~IsNone(raised)
        /\ ~FaultFree =>
              /\ ~R.success
              /\ R.video_id = request.url
        /\ FaultFree =>
              /\ R.video_id = Parsed.id
              /\ R.success \/ NoTranscriptAvailable
        /\ (R.video_id = Parsed.id /\ request.url # Parsed.id) =>
              (R.success \/ (NoTranscriptAvailable /\ FaultFree))

\* C19 witness: the identifier was parsed out of a longer URL, the cue
\* fetch raised, and the result names the URL.
C19_Witness ==
    /\ Returned /\ Parsed.ok
    /\ request.url = UrlShort
    /\ video_id = IdA
    /\ ~FaultFree
    /\ calls[Len(calls)].op = "fetch"
    /\ R.video_id = UrlShort
    /\ R.video_id # video_id

----------------------------------------------------------------------------
(* The claim about get_youtube_transcripts_batch *)

BatchReturned == pc = "returned" /\ ~IsNone(response)
Urlsb == Get(batch).urls
Alone(url) == get_youtube_transcript(TranscriptRequest(url, Get(batch).languages), provider)

\* C8: the batch returns one result per URL, total = N, result i being what
\* get_youtube_transcript gives for URL i on its own with the shared
\* languages; an invalid item has ok=false and the others are unaffected.
C8_BatchShape ==
    /\ Len(results) = bi - 1
    /\ \A i \in 1 .. Len(results) : results[i] = Alone(Urlsb[i])
    /\ BatchReturned =>
          /\ Len(Get(response).results) = Len(Urlsb)
          /\ Get(response).total = Len(Urlsb)
          /\ \A i \in 1 .. Len(Urlsb) :
                /\ Get(response).results[i] = Alone(Urlsb[i])
                /\ Urlsb[i] \in UnmatchedInputs => ~Get(response).results[i].success

\* C8 witness: a batch whose first item is invalid and whose second, a
\* repeat of no earlier URL, succeeded.
C8_Witness ==
    /\ BatchReturned
    /\ Len(Urlsb) = 2
    /\ Urlsb[1] = UrlBad
    /\ ~Get(response).results[1].success
    /\ Get(response).results[2].success
    /\ Get(response).total = 2

----------------------------------------------------------------------------
(* The claims about scrape_url *)

ScrapeReturned == spc = "done" /\ ~IsNone(sresponse)
SR == Get(sresponse)
Body == http.body

Smaller(a, b) == IF a <= b THEN a ELSE b

\* text a is the beginning of text b
IsPrefix(a, b) ==
    \/ a = << >>
    \/ /\ Len(a) <= Len(b)
       /\ \A k \in 1 .. (Len(a) - 1) : a[k] = b[k]
       /\ a[Len(a)].ch = b[Len(a)].ch
       /\ a[Len(a)].n <= b[Len(a)].n

\* C9: every ScrapeResponse holds at most 50,000 characters of content; on
\* success the content is the beginning of the extracted text, all of it
\* when it is no longer than the cap and 50,000 characters of it otherwise,
\* with nothing appended; on failure it is empty.
C9_ContentCap ==
    ScrapeReturned =>
        /\ TLen(SR.content) <= ContentLimit
        /\ ~SR.success => SR.content = << >>
        /\ SR.success =>
              /\ ~IsNone(content)
              /\ IsPrefix(SR.content, Get(content))
              /\ TLen(SR.content) = Smaller(TLen(Get(content)), ContentLimit)
              /\ TLen(Get(content)) <= ContentLimit => SR.content = Get(content)

\* C9 witness: with a selector, an extracted text longer than the cap was
\* returned cut to 50,000 characters.
C9_Witness ==
    /\ ScrapeReturned
    /\ SR.success
    /\ srequest.selector = Some("article")
    /\ TLen(Get(content)) > ContentLimit
    /\ TLen(SR.content) = ContentLimit

\* the elements of the page at or below a script, style, nav, footer or
\* header element
StrippedNodes(nodes) ==
    {i \in 1 .. Len(nodes) : \E j \in Path(nodes, i) : nodes[j].tag \in StripKinds}

Chars(t) == {t[k].ch : k \in 1 .. Len(t)}

\* C10: no text is extracted until the stripped subtrees are gone from the
\* tree, and for every page and selector the content returned holds no
\* text of an element at or below a stripped element.
C10_PruneBeforeExtract ==
    /\ spc \in {"start", "prune", "extract"} => IsNone(content)
    /\ (spc \in {"extract", "done"} /\ ~IsNone(soup)) =>
          Get(soup).alive \cap StrippedNodes(Body) = {}
    /\ (ScrapeReturned /\ SR.success) =>
          \A i \in StrippedNodes(Body) :
              /\ Tok[i] \notin Chars(SR.content)
              /\ Tok[i] \notin Chars(Get(content))

\* C10 witness: the selector matches an article inside a nav and one
\* outside; only the text of the one outside is returned.
C10_Witness ==
    /\ ScrapeReturned
    /\ SR.success
    /\ srequest.selector = Some("article")
    /\ \E i \in StrippedNodes(Body) :
          /\ Body[i].tag = "article"
          /\ Body[i].parent # 0
          /\ Body[Body[i].parent].tag = "nav"
          /\ Tok[i] \in Chars(Body[i].text)
    /\ SR.content # << >>

\* the elements left once the stripped subtrees are gone
Kept == (1 .. Len(Body)) \ StrippedNodes(Body)
KeptWith(tag) == {i \in Kept : Body[i].tag = tag}
Least(S) == CHOOSE x \in S : \A y \in S : x <= y

RECURSIVE Gathered(_, _, _)
\* the stripped, non-empty texts held at or below element i by the kept
\* elements j, j+1, ..., in document order, with sep between neighbours
Gathered(i, j, sep) ==
    IF j > Len(Body) THEN << >>
    ELSE LET rest == Gathered(i, j + 1, sep)
             own == IF j \in Kept /\ i \in Path(Body, j) THEN Strip(Body[j].text) ELSE << >>
         IN  IF own = << >> THEN rest
             ELSE IF rest = << >> THEN own
             ELSE Cat(Cat(own, sep), rest)

RECURSIVE Selected(_, _)
\* the texts of the kept elements j, j+1, ... of the given tag, one per
\* line, in document order
Selected(tag, j) ==
    IF j > Len(Body) THEN << >>
    ELSE IF j \notin KeptWith(tag) THEN Selected(tag, j + 1)
    ELSE IF \A k \in (j + 1) .. Len(Body) : k \notin KeptWith(tag)
    THEN Gathered(j, j, << >>)
    ELSE Cat(Cat(Gathered(j, j, << >>), Run("\n", 1)), Selected(tag, j + 1))

\* a selector is supplied: the request holds a non-empty one
Supplied == ~IsNone(srequest.selector) /\ Get(srequest.selector) # ""

\* C14: on success, with a selector supplied the content is the stripped
\* texts of the matching elements, one per line in document order; with
\* none it is the text of the first main element, of the first article if
\* there is no main, of the first body if there is neither, the elements
\* being those left after the stripped subtrees were removed.
C14_ContentSelection ==
    (ScrapeReturned /\ SR.success) =>
        /\ Supplied => Get(content) = Selected(Get(srequest.selector), 1)
        /\ (~Supplied /\ KeptWith("main") # {}) =>
              Get(content) = Gathered(Least(KeptWith("main")), 1, Run("\n", 1))
        /\ (~Supplied /\ KeptWith("main") = {} /\ KeptWith("article") # {}) =>
              Get(content) = Gathered(Least(KeptWith("article")), 1, Run("\n", 1))
        /\ (~Supplied /\ KeptWith("main") = {} /\ KeptWith("article") = {}
               /\ KeptWith("body") # {}) =>
              Get(content) = Gathered(Least(KeptWith("body")), 1, Run("\n", 1))

\* C14 witness: no selector, an article that comes before a main in the
\* page, and the text returned is that of the main.
C14_Witness ==
    /\ ScrapeReturned
    /\ SR.success
    /\ srequest.selector = None
    /\ Len(Body) = 2
    /\ Body[1].tag = "article" /\ Body[2].tag = "main" /\ Body[2].parent = 0
    /\ SR.content = Run(Tok[2], 1)

\* the request cannot succeed: the GET, the status check or the parse
\* raises, or the selector is one soup.select rejects
SelectorRejected ==
    /\ ~IsNone(srequest.selector)
    /\ Get(srequest.selector) # ""
    /\ Get(srequest.selector) \notin KnownTags
ScrapeFails == http.kind = "raised" \/ SelectorRejected

\* C11: every failure of scrape_url (transport fault, timeout, non-success
\* status, parse fault, rejected selector) returns ok=false, content "",
\* no title and an error that is present; a non-success status gives the
\* error "HTTP error {status}"; and a request that meets none of these
\* succeeds.
C11_FailureIsEmpty ==
    ScrapeReturned =>
        /\ SR.success <=> ~ScrapeFails
        /\ ScrapeFails =>
              /\ SR.content = << >>
              /\ SR.title = None
              /\ ~IsNone(SR.error)
              /\ SR.url = srequest.url
        /\ (http.kind = "raised" /\ http.exc.type = "HTTPStatusError") =>
              SR.error = Some(<<"HTTP error ", http.exc.status>>)
        /\ (http.kind = "raised" /\ http.exc.type # "HTTPStatusError") =>
              SR.error = Some(http.exc.msg)

\* C11 witness: the page answered 404 and the failure names the status.
C11_Witness ==
    /\ ScrapeReturned
    /\ http.kind = "raised"
    /\ http.exc = HTTPStatusError("404")
    /\ ~SR.success
    /\ SR.content = << >>
    /\ SR.error = Some(<<"HTTP error ", "404">>)

\* C20: a non-empty selector that matches no element gives ok=true with
\* empty content, whatever main, article or body hold; the empty-string
\* selector gives the response of the request without a selector; with no
\* selector and no main, article or body the response is ok=true with
\* empty content.
C20_SelectorEdgeCases ==
    (ScrapeReturned /\ http.kind = "ok") =>
        /\ (Supplied /\ ~SelectorRejected /\ KeptWith(Get(srequest.selector)) = {}) =>
              /\ SR.success
              /\ SR.content = << >>
              /\ IsNone(SR.error)
        /\ srequest.selector = Some("") =>
              /\ SR.success
              /\ SR = scrape_url(ScrapeRequest(srequest.url, None), http)
        /\ (~Supplied /\ KeptWith("main") \cup KeptWith("article") \cup KeptWith("body") = {}) =>
              /\ SR.success
              /\ SR.content = << >>
              /\ IsNone(SR.error)

\* C20 witness: the selector matches nothing that is left (the only nav is
\* stripped), the page has a main with text, and the content is empty.
C20_Witness ==
    /\ ScrapeReturned
    /\ http.kind = "ok"
    /\ srequest.selector = Some("nav")
    /\ Len(Body) = 2
    /\ Body[1].tag = "main" /\ Body[1].text = Run(Tok[1], 1)
    /\ Body[2].tag = "nav"
    /\ SR.success
    /\ SR.content = << >>

----------------------------------------------------------------------------
(* The claims about extract_video_id *)

ParseReturned == pc = "list"
ParseRaised == pc = "done" /\ ~IsNone(raised) /\ Get(raised) = ValueErrorOf(request.url)
Input == request.url

\* a marker stands at position i of the input with 11 allowed characters
\* right after it
Embedded(i) == \E m \in 1 .. Len(Markers) : MarkedAt(Input, i, m)
\* the 11 characters after the marker at position i
IdAfter(i) ==
    LET m == CHOOSE a \in 1 .. Len(Markers) : MarkedAt(Input, i, a)
    IN  SubSeq(Input, i + Len(Markers[m]), i + Len(Markers[m]) + IdLen - 1)

\* C12 as claimed: whatever surrounds it, an identifier embedded after a
\* marker is what extract_video_id returns.
C12_EveryEmbeddedId ==
    pc # "start" =>
        \A i \in 1 .. Len(Input) :
            Embedded(i) => (ParseReturned /\ video_id = IdAfter(i))

\* C12 amended: when a marker followed by 11 allowed characters occurs in
\* the input, extract_video_id returns the 11 characters after the
\* leftmost such marker (exactly that identifier when there is only one).
C12_LeftmostEmbeddedId ==
    pc # "start" =>
        \A i \in 1 .. Len(Input) :
            (Embedded(i) /\ \A j \in 1 .. (i - 1) : ~Embedded(j)) =>
                /\ ParseReturned
                /\ video_id = IdAfter(i)
                /\ Len(video_id) = IdLen
                /\ \A k \in 1 .. IdLen : video_id[k] \in IdChars

\* C12 witness: two identifiers embedded after markers, the first returned.
C12_Witness ==
    /\ ParseReturned
    /\ Input = Marked(3, IdA) \o <<"&">> \o Marked(1, IdB)
    /\ video_id = IdA

\* exactly 11 allowed characters
IsBareId(url) == Len(url) = IdLen /\ \A k \in 1 .. Len(url) : url[k] \in IdChars
MarkerFree(url) == \A i \in 1 .. Len(url), m \in 1 .. Len(Markers) : ~LiteralAt(url, i, Markers[m])

\* C13: an input of exactly 11 allowed characters is returned unchanged and
\* the marker pattern does not match it; any other input without markers
\* is rejected.
C13_BareIdentifier ==
    pc # "start" =>
        /\ IsBareId(Input) =>
              /\ ParseReturned
              /\ video_id = Input
              /\ \A i \in 1 .. Len(Input) : ~Embedded(i)
        /\ (MarkerFree(Input) /\ ~IsBareId(Input)) => ParseRaised

----------------------------------------------------------------------------
(* The claim about the service as a whole *)

\* the response to a request handled on its own against the external
\* content as it is
TranscriptAlone ==
    [held \in ServiceProviders |->
        [req \in ServiceTranscriptRequests |-> get_youtube_transcript(req, held)]]
ScrapeAlone ==
    [met \in ServiceOutcomes |->
        [sel \in ServiceSelectors |-> scrape_url(ScrapeRequest(PageUrl, sel), met)]]
HandledAlone(kind, req) ==
    IF kind = "transcript" THEN TranscriptAlone[provider][req]
    ELSE ScrapeAlone[http][req.selector]

\* C15: whatever was served before or in between, every response is the
\* one the request gets on its own against the unchanged external content,
\* so two identical requests get identical responses.
C15_Stateless ==
    /\ \A i \in 1 .. Len(served) :
          served[i].response = HandledAlone(served[i].kind, served[i].request)
    /\ \A i, j \in 1 .. Len(served) :
          (served[i].kind = served[j].kind /\ served[i].request = served[j].request)
              => served[i].response = served[j].response

\* C15 witness: the same transcript request served first and third, with
\* another request for the same video served in between, answered alike.
C15_Witness ==
    /\ Len(served) = 3
    /\ served[1].kind = "transcript"
    /\ served[1].request = TranscriptRequest(UrlShort, <<"en", "es">>)
    /\ served[2].kind = "transcript"
    /\ served[2].request = TranscriptRequest(UrlShort, <<"es">>)
    /\ served[3] = served[1]
    /\ served[1].response.success
    /\ served[2].response # served[1].response

----------------------------------------------------------------------------
(* The claim about the provider calls of a resolution and of a batch *)

ListCalls == SelectSeq(calls, LAMBDA c : c.op = "list_transcripts")
\* the resolution in hand has parsed its identifier and asked for the tracks
Listed ==
    \/ pc \in {"search_preferred", "search_auto_fallback", "search_any", "fetch"}
    \/ pc = "done" /\ Parsed.ok
\* the provider calls of the resolution in hand
ThisCalls ==
    IF ~Listed \/ ListCalls = << >> THEN << >>
    ELSE LET from == CHOOSE i \in 1 .. Len(calls) :
                        /\ calls[i].op = "list_transcripts"
                        /\ \A j \in (i + 1) .. Len(calls) : calls[j].op # "list_transcripts"
         IN  SubSeq(calls, from, Len(calls))
OfOp(cs, op) == SelectSeq(cs, LAMBDA c : c.op = op)

\* the URLs of the batch whose enumeration call was due so far (all but
\* the one in hand when the resolver has not reached the call yet), those
\* whose identifier parses, in input order
ParsedSoFar ==
    LET asked == IF Listed \/ pc = "done" THEN bi ELSE bi - 1
    IN  SelectSeq([i \in 1 .. asked |-> Urlsb[i]], LAMBDA u : ParsedInputs[u].ok)

\* the stage a provider call belongs to
StageOfCall(c) ==
    CASE c.op = "list_transcripts" -> "list"
      [] c.op = "find_transcript" -> "search_preferred"
      [] c.op = "find_generated_transcript" -> "search_auto_fallback"
      [] OTHER -> "fetch"

SingleAttempt ==
    /\ IsNone(batch) => ThisCalls = calls
    /\ Listed =>
          /\ Len(OfOp(ThisCalls, "list_transcripts")) = 1
          /\ ThisCalls[1] = Call("list_transcripts", video_id)
          /\ Len(OfOp(ThisCalls, "find_transcript")) <= Len(request.languages)
          /\ OfOp(ThisCalls, "find_transcript") =
                [k \in 1 .. Len(OfOp(ThisCalls, "find_transcript")) |->
                    Call("find_transcript", <<request.languages[k]>>)]
          /\ Len(OfOp(ThisCalls, "find_generated_transcript")) <= 1
          /\ Len(OfOp(ThisCalls, "fetch")) <= 1
          /\ \A i, j \in 1 .. Len(ThisCalls) :
                i < j => StageRank(StageOfCall(ThisCalls[i]))
                            <= StageRank(StageOfCall(ThisCalls[j]))
          /\ Len(OfOp(ThisCalls, "fetch")) = 1 =>
                /\ ~IsNone(transcript)
                /\ FetchedLast(Get(transcript))
                /\ pc = "done"
    /\ pc \in {"list", "search_preferred", "search_auto_fallback", "search_any", "fetch"}
          => IsNone(raised)
    /\ ~IsNone(batch) =>
          /\ Len(results) = bi - 1
          /\ pc \notin {"idle", "returned"} => (bi <= Len(Urlsb) /\ request.url = Urlsb[bi])
          /\ ListCalls = [k \in 1 .. Len(ParsedSoFar) |->
                             Call("list_transcripts", ParsedInputs[ParsedSoFar[k]].id)]

\* a step makes at most one provider call; parsing makes none, and none
\* follows when it fails; a fault ends the resolution, and once the
\* resolution has its result it makes no other call; the batch moves on by
\* one URL, and only past a finished resolution
CallStep ==
    /\ \/ calls' = calls
       \/ Len(calls') = Len(calls) + 1 /\ SubSeq(calls', 1, Len(calls)) = calls
    /\ pc \in {"start", "done", "idle", "returned"} => calls' = calls
    /\ (pc = "start" /\ ~Parsed.ok) => (pc' = "done" \/ pc' = pc)
    /\ (IsNone(raised) /\ ~IsNone(raised')) => pc' = "done"
    /\ bi' \in {bi, bi + 1}
    /\ bi' = bi + 1 => (pc = "done" /\ pc' = "idle")

\* C17: a resolution makes no provider call when the identifier does not
\* parse; otherwise one enumeration call, at most one lookup per entry of
\* the language list, in list order, at most one generated-group lookup
\* and at most one cue fetch, of the recorded track; a fault ends the
\* resolution with no further call; the batch hands each URL to the
\* resolver once, one after another in input order.
C17_SingleAttempt == [](SingleAttempt) /\ [][CallStep]_vars

\* C17 witness: a batch of two URLs has returned; the first resolution
\* stopped at its enumeration call, which faulted, the second went on to
\* its fetch.
C17_Witness ==
    /\ BatchReturned
    /\ Urlsb = <<UrlShort, UrlBare>>
    /\ calls[1] = Call("list_transcripts", IdA)
    /\ calls[2] = Call("list_transcripts", IdB)
    /\ calls[Len(calls)].op = "fetch"
    /\ ~results[1].success
    /\ results[2].success

====
